---- MODULE Spec2Model ----
(***************************************************************************)
(* A model of the reconstruction core of archia:                           *)
(*   src/src/reconstruction/potteryRebuilder.js  (PotteryReconstructor)    *)
(*   src/src/ai/depthEstimator.js                (DepthEstimator, singleton) *)
(*   src/src/ai/classifier.js                    (classifier singleton)    *)
(*   src/src/App.jsx, src/unnamed/part_009       (capture results, rebuild) *)
(*   src/src/components/CameraCapture.jsx        (captureImage)            *)
(*                                                                         *)
(* Numbers.  The JavaScript code computes on IEEE doubles.  The model      *)
(* computes on exact rationals <<n, d>> (d > 0, lowest terms), so every    *)
(* sum, mean and comparison is the mathematical one; rounding to 53 bits   *)
(* is not modelled.  Square roots are taken of perfect squares only (the   *)
(* point sets below are chosen that way).                                  *)
(***************************************************************************)
EXTENDS Integers, Sequences, FiniteSets, TLC

VARIABLES
    \* PotteryReconstructor
    fragments,      \* this.fragments
    lastOp,         \* the method of the reconstructor that ran last
    ret,            \* what that method returned
    calls,          \* history: the arguments of the addFragment calls since the last clear()
    meshSince,      \* history: the mesh of the latest reconstruct(), while no addFragment or clear() follows it
    prev,           \* history: the fragment count and meshSince before the last call
    \* pure profile functions, applied to drawn inputs
    fnIn,           \* the argument drawn
    fnOp,           \* the function it is drawn for
    fnOut,          \* what the function returned
    fnDone,         \* whether it has been applied
    \* DepthEstimator.depthToPointCloud
    depthMap,       \* depthMap.arraySync()
    cameraIntrinsics,
    points,         \* the array returned
    projDone,       \* whether depthToPointCloud has run
    \* DepthEstimator life cycle
    initialized,    \* this.initialized
    pendingInit,    \* initialize() calls suspended at `await tf.ready()`
    lastEvent,      \* history: the last of "constructed", "initialized", "disposed"
    imgElement,     \* the image handed to estimateDepth
    smoothed,       \* what steps 1 to 7 of estimateDepth make of it
    estOut,         \* outcome of the last estimateDepth call
    depthEstimatorInstance, \* the module's singleton: Null, or "estimator" once created
    estCalls,       \* the getDepthEstimator() calls made: awaiting, resolved (with
                    \* the flag of the estimator they resolved to) or rejected
    \* App and the captures of CameraCapture
    appFragments,   \* App's state `fragments`: the capture results kept
    reconstructedMesh, \* App's state `reconstructedMesh`
    processing,     \* CameraCapture's state `processing`
    inFlight,       \* captures begun and not yet delivered: the `fragments` their
                    \* onResult callback closed over, and "loading" or "processing"
    delivered,      \* history: what the last step delivered ("ok", "failed", "none")
    storeBefore,    \* history: this.fragments of the reconstructor before the last step
    deliveredResults \* history: the results handed to handleCaptureResult since the
                    \* start or the last clear; `tracked` is false once a clear
                    \* has happened with a capture under way

\* the capture component with processImage (part_009)
VARIABLES
    streamStarted,  \* streamStarted
    srcObject,      \* videoRef.current.srcObject while the video element is mounted
    tracks,         \* the tracks of the camera stream: "none", "live" or "stopped"
    error,          \* error
    lastRun,        \* history: what the last processImage run met and handed to onResult
    lastCameraOp    \* history: the last startCamera / stopCamera call and what it met

\* ai/classifier.js: the classifier singleton
VARIABLES
    classifierInstance, \* 0 for null, or the index in `classifiers` of the instance
    classifiers,        \* every FragmentClassifier created: loading, loaded, whether
                        \* its initialize() is in progress, whether mobileNet is set
    clsCalls            \* the getFragmentClassifier() calls made and where each stands

\* components/CameraCapture.jsx (the component with captureImage)
VARIABLES
    ccStreamStarted,  \* streamStarted
    ccProcessing,     \* processing
    ccDepthEstimator, \* depthEstimator: Null, or the estimator the mount effect got
    ccStage,          \* where the capture under way is suspended
    ccLog             \* history: how each capture ended

storeVars == <<fragments, lastOp, ret, calls, meshSince, prev>>
fnVars == <<fnIn, fnOp, fnOut, fnDone>>
projVars == <<depthMap, cameraIntrinsics, points, projDone>>
clsVars == <<classifierInstance, classifiers, clsCalls>>
instVars == <<depthEstimatorInstance, estCalls, clsVars>>
estVars == <<initialized, pendingInit, lastEvent, imgElement, smoothed, estOut, instVars>>
camVars == <<streamStarted, srcObject, tracks, error, lastRun, lastCameraOp>>
ccVars == <<ccStreamStarted, ccProcessing, ccDepthEstimator, ccStage, ccLog>>
appVars == <<appFragments, reconstructedMesh, processing, inFlight, delivered, storeBefore,
            deliveredResults, ccVars, camVars>>
vars == <<storeVars, fnVars, projVars, estVars, appVars>>

-----------------------------------------------------------------------------
(* Bounds of the model *)

MaxFragments == 2
MaxPoints == 5
MaxProfiles == 3
MaxDim == 2
MaxPending == 2
MaxCaptures == 2
MaxCalls == 4

-----------------------------------------------------------------------------
(* JavaScript values *)

Undefined == [t |-> "undefined"]
Null == [t |-> "null"]
Str(s) == [t |-> "string", v |-> s]

\* ToBoolean of the values the model passes around
Truthy(v) ==
    CASE v.t = "undefined" -> FALSE
      [] v.t = "null" -> FALSE
      [] v.t = "string" -> v.v # ""
      [] v.t = "number" -> v.v[1] # 0
      [] OTHER -> TRUE

\* a || b
OrElse(a, b) == IF Truthy(a) THEN a ELSE b

-----------------------------------------------------------------------------
(* Exact rational arithmetic *)

Abs(n) == IF n < 0 THEN -n ELSE n

RECURSIVE GCD(_, _)
GCD(a, b) == IF b = 0 THEN a ELSE GCD(b, a % b)

\* the rational n/d in lowest terms with a positive denominator (d # 0)
Rat(n, d) ==
    LET g == GCD(Abs(n), Abs(d))
        s == IF d < 0 THEN -1 ELSE 1
    IN  <<s * (n \div g), s * (d \div g)>>

RInt(n) == <<n, 1>>
RAdd(a, b) == Rat(a[1] * b[2] + b[1] * a[2], a[2] * b[2])
RSub(a, b) == Rat(a[1] * b[2] - b[1] * a[2], a[2] * b[2])
RMul(a, b) == Rat(a[1] * b[1], a[2] * b[2])
\* a / b; a zero divisor gives NaN (0 / 0) or an infinity, written <<0, 0>> and
\* <<1, 0>>, <<-1, 0>>
NaN == <<0, 0>>
RDiv(a, b) ==
    IF b[1] = 0
    THEN IF a[1] = 0 THEN NaN ELSE <<IF a[1] < 0 THEN -1 ELSE 1, 0>>
    ELSE Rat(a[1] * b[2], a[2] * b[1])
RLess(a, b) == a[1] * b[2] < b[1] * a[2]
RLeq(a, b) == a[1] * b[2] <= b[1] * a[2]

\* Math.sqrt on a rational whose numerator and denominator are perfect squares
ISqrt(n) == CHOOSE k \in 0..n : k * k = n
RSqrt(a) == Rat(ISqrt(a[1]), ISqrt(a[2]))

\* mutant: Math.floor in place of Math.round
RRound_Floor(a) == a[1] \div a[2]

\* Math.round: the nearest integer, a tie going up (towards +Infinity)
RRound(a) == (2 * a[1] + a[2]) \div (2 * a[2])

-----------------------------------------------------------------------------
(* PotteryReconstructor: profiles *)

\* Array.prototype.sort((a, b) => a.y - b.y): stable, ascending in y
RECURSIVE InsertByY(_, _)
InsertByY(sorted, e) ==
    IF sorted = <<>> THEN <<e>>
    ELSE IF RLeq(sorted[Len(sorted)].y, e.y) THEN Append(sorted, e)
    ELSE Append(InsertByY(SubSeq(sorted, 1, Len(sorted) - 1), e), sorted[Len(sorted)])

RECURSIVE SortByY(_)
SortByY(profile) ==
    IF profile = <<>> THEN <<>>
    ELSE InsertByY(SortByY(SubSeq(profile, 1, Len(profile) - 1)), profile[Len(profile)])

\* the running sums of the inner loop of smoothProfile, j = lo .. hi (1-based)
RECURSIVE SumField(_, _, _, _)
SumField(profile, f, lo, hi) ==
    IF hi < lo THEN RInt(0)
    ELSE RAdd(SumField(profile, f, lo, hi - 1), IF f = "r" THEN profile[hi].r ELSE profile[hi].y)

Max(a, b) == IF a > b THEN a ELSE b
Min(a, b) == IF a < b THEN a ELSE b

ExtractWindow == 5
MergeWindow == 7

\* mutant: every window mean is divided by windowSize, also a window cut at an end
smoothProfile_FixedCount(profile, windowSize) ==
    IF Len(profile) < windowSize THEN profile
    ELSE LET half == windowSize \div 2
         IN  [k \in 1..Len(profile) |->
                LET i == k - 1
                    start == Max(0, i - half)
                    end == Min(Len(profile), i + half + 1)
                IN  [r |-> RDiv(SumField(profile, "r", start + 1, end), RInt(windowSize)),
                     y |-> RDiv(SumField(profile, "y", start + 1, end), RInt(windowSize))]]

\* mutant: a profile of exactly windowSize samples is returned as it is
smoothProfile_LeqGuard(profile, windowSize) ==
    IF Len(profile) <= windowSize THEN profile
    ELSE LET half == windowSize \div 2
         IN  [k \in 1..Len(profile) |->
                LET start == Max(0, k - 1 - half)
                    end == Min(Len(profile), k + half)
                IN  [r |-> RDiv(SumField(profile, "r", start + 1, end), RInt(end - start)),
                     y |-> RDiv(SumField(profile, "y", start + 1, end), RInt(end - start))]]

smoothProfile(profile, windowSize) ==
    IF Len(profile) < windowSize THEN profile
    ELSE LET half == windowSize \div 2
         IN  [k \in 1..Len(profile) |->
                LET i == k - 1
                    start == Max(0, i - half)
                    end == Min(Len(profile), i + half + 1)
                    count == end - start
                IN  [r |-> RDiv(SumField(profile, "r", start + 1, end), RInt(count)),
                     y |-> RDiv(SumField(profile, "y", start + 1, end), RInt(count))]]

\* mutant: the radius is the distance along x only
extractSymmetryProfile_RadiusX(pts) ==
    smoothProfile(SortByY([i \in 1..Len(pts) |->
        [r |-> Rat(Abs(pts[i].x[1]), pts[i].x[2]), y |-> pts[i].y]]), ExtractWindow)

\* mutant: a fragment without points yields one placeholder sample on the axis
extractSymmetryProfile_Placeholder(pts) ==
    IF pts = <<>> THEN <<[r |-> RInt(0), y |-> RInt(0)]>>
    ELSE smoothProfile(SortByY([i \in 1..Len(pts) |->
             [r |-> RSqrt(RAdd(RMul(pts[i].x, pts[i].x), RMul(pts[i].z, pts[i].z))),
              y |-> pts[i].y]]), ExtractWindow)

extractSymmetryProfile(pts) ==
    LET profile == [i \in 1..Len(pts) |->
                      [r |-> RSqrt(RAdd(RMul(pts[i].x, pts[i].x), RMul(pts[i].z, pts[i].z))),
                       y |-> pts[i].y]]
    IN  smoothProfile(SortByY(profile), ExtractWindow)

\* profiles.flat()
RECURSIVE Flat(_)
Flat(profiles) ==
    IF profiles = <<>> THEN <<>>
    ELSE Flat(SubSeq(profiles, 1, Len(profiles) - 1)) \o profiles[Len(profiles)]

bucketHeight == Rat(1, 2)

\* the Map `buckets` after the loop over allPoints: its entries <<key, radii>> in
\* insertion order, radii in push order
RECURSIVE Buckets(_)
Buckets(allPoints) ==
    IF allPoints = <<>> THEN <<>>
    ELSE LET before == Buckets(SubSeq(allPoints, 1, Len(allPoints) - 1))
             point == allPoints[Len(allPoints)]
             bucketKey == RRound(RDiv(point.y, bucketHeight))
         IN  IF \E i \in 1..Len(before) : before[i].key = bucketKey
             THEN [i \in 1..Len(before) |->
                     IF before[i].key = bucketKey
                     THEN [key |-> bucketKey, radii |-> Append(before[i].radii, point.r)]
                     ELSE before[i]]
             ELSE Append(before, [key |-> bucketKey, radii |-> <<point.r>>])

\* radii.reduce((sum, r) => sum + r, 0)
RECURSIVE SumRadii(_)
SumRadii(radii) ==
    IF radii = <<>> THEN RInt(0)
    ELSE RAdd(SumRadii(SubSeq(radii, 1, Len(radii) - 1)), radii[Len(radii)])

\* mutant: a bucket keeps the radius pushed last instead of the mean
Merged_LastRadius(buckets) ==
    [i \in 1..Len(buckets) |->
        [r |-> buckets[i].radii[Len(buckets[i].radii)],
         y |-> RMul(RInt(buckets[i].key), bucketHeight)]]

\* the array `merged` before it is sorted
Merged(buckets) ==
    [i \in 1..Len(buckets) |->
        [r |-> RDiv(SumRadii(buckets[i].radii), RInt(Len(buckets[i].radii))),
         y |-> RMul(RInt(buckets[i].key), bucketHeight)]]

\* mutant: the merged profile is smoothed with a window of 3
mergeProfiles_Window3(profiles) ==
    smoothProfile(SortByY(Merged(Buckets(Flat(profiles)))), 3)

\* mutant: merged is not sorted, it stays in the Map's insertion order
mergeProfiles_NoSort(profiles) ==
    smoothProfile(Merged(Buckets(Flat(profiles))), MergeWindow)

mergeProfiles(profiles) ==
    smoothProfile(SortByY(Merged(Buckets(Flat(profiles)))), MergeWindow)

-----------------------------------------------------------------------------
(* PotteryReconstructor: meshes *)

Num(q) == [t |-> "number", v |-> q]

Segments == 64
MinProfileLength == 3

\* new THREE.Vector2(p.r, p.y) for every sample
Vector2s(profile) == [i \in 1..Len(profile) |-> [x |-> profile[i].r, y |-> profile[i].y]]

\* r = 2 + Math.sin(t * Math.PI) * 0.5 for t = i / 10, in units of 1/10000
\* (the sine rounded to four decimals), i = 0 .. 10
DefaultRadius == <<20000, 21545, 22939, 24045, 24755, 25000, 24755, 24045, 22939, 21545, 20000>>

buildDefaultPottery ==
    [t |-> "mesh",
     geometry |-> [points |-> [k \in 1..11 |-> [x |-> Rat(DefaultRadius[k], 10000), y |-> RInt(k - 1)]],
                   segments |-> Segments,
                   normals |-> "LatheGeometry"],
     material |-> [color |-> "c2a070", metalness |-> Rat(1, 10), roughness |-> Rat(8, 10),
                   side |-> "FrontSide"]]

\* mutant: a profile of exactly three samples is also too short
ProfileTooShort_Leq(pts) == Len(pts) <= MinProfileLength

\* points.length < 3
ProfileTooShort(pts) == Len(pts) < MinProfileLength

buildMeshFromProfile(profile, segments) ==
    LET pts == Vector2s(profile)
    IN  IF ProfileTooShort(pts) THEN buildDefaultPottery
        ELSE [t |-> "mesh",
              geometry |-> [points |-> pts, segments |-> segments,
                            normals |-> "computeVertexNormals"],
              material |-> [color |-> "c2a070", metalness |-> Rat(1, 10), roughness |-> Rat(8, 10),
                            side |-> "DoubleSide"]]

\* applyFragmentConstraints(mesh): reads the types, logs, and assigns nothing.
\* The mesh and this.fragments after the call.
\* mutant: a rim fragment makes the mesh single-sided
applyFragmentConstraints_RimChangesMesh(frags, mesh) ==
    IF \E i \in 1..Len(frags) : frags[i].type = Str("rim")
    THEN [mesh |-> [mesh EXCEPT !.material.side = "FrontSide"], fragments |-> frags,
          log |-> <<TRUE, FALSE>>]
    ELSE [mesh |-> mesh, fragments |-> frags, log |-> <<FALSE, FALSE>>]

applyFragmentConstraints(frags, mesh) ==
    LET hasRim == \E i \in 1..Len(frags) : frags[i].type = Str("rim")
        hasBase == \E i \in 1..Len(frags) : frags[i].type = Str("base")
    IN  [mesh |-> mesh, fragments |-> frags, log |-> <<hasRim, hasBase>>]

\* the profile reconstruct() hands to buildMeshFromProfile
FinalProfile(frags) ==
    mergeProfiles([i \in 1..Len(frags) |-> extractSymmetryProfile(frags[i].points)])

\* mutant: the store is emptied once the mesh is built
reconstruct_Consuming(frags) ==
    IF Len(frags) = 0 THEN [mesh |-> buildDefaultPottery, fragments |-> frags]
    ELSE [mesh |-> buildMeshFromProfile(FinalProfile(frags), Segments), fragments |-> <<>>]

\* mutant: the fragments' own point arrays are sorted by height
reconstruct_SortsInPlace(frags) ==
    IF Len(frags) = 0 THEN [mesh |-> buildDefaultPottery, fragments |-> frags]
    ELSE [mesh |-> buildMeshFromProfile(FinalProfile(frags), Segments),
          fragments |-> [i \in 1..Len(frags) |->
                           [frags[i] EXCEPT !.points = SortByY(frags[i].points)]]]

\* reconstruct(): the mesh returned and this.fragments after the call
reconstruct(frags) ==
    IF Len(frags) = 0 THEN [mesh |-> buildDefaultPottery, fragments |-> frags]
    ELSE LET mesh == buildMeshFromProfile(FinalProfile(frags), Segments)
             after == applyFragmentConstraints(frags, mesh)
         IN  [mesh |-> after.mesh, fragments |-> after.fragments]

-----------------------------------------------------------------------------
(* PotteryReconstructor: the fragment store *)

\* mutant: unshift instead of push
addFragment_Unshift(frags, pointCloud, metadata) ==
    <<[points |-> pointCloud,
       type |-> OrElse(metadata.fragmentType, Str("unknown")),
       confidence |-> OrElse(metadata.confidence, Num(Rat(1, 2)))]>> \o frags

\* this.fragments after addFragment(pointCloud, metadata); the timestamp, which no
\* code reads back, is left out
addFragment(frags, pointCloud, metadata) ==
    Append(frags, [points |-> pointCloud,
                   type |-> OrElse(metadata.fragmentType, Str("unknown")),
                   confidence |-> OrElse(metadata.confidence, Num(Rat(1, 2)))])

\* mutant: only the newest fragment is dropped
clear_Pop(frags) == IF frags = <<>> THEN <<>> ELSE SubSeq(frags, 1, Len(frags) - 1)

\* this.fragments after clear()
clear(frags) == <<>>

RECURSIVE TotalPoints(_)
TotalPoints(frags) ==
    IF frags = <<>> THEN 0
    ELSE TotalPoints(SubSeq(frags, 1, Len(frags) - 1)) + Len(frags[Len(frags)].points)

getStats(frags) ==
    [t |-> "stats",
     fragmentCount |-> Len(frags),
     totalPoints |-> TotalPoints(frags),
     fragmentTypes |-> [i \in 1..Len(frags) |-> frags[i].type]]

-----------------------------------------------------------------------------
(* Inputs *)

\* the point {x, y, z} with integer x and z and y = y4 / 4
Pt(x, y4, z) == [x |-> RInt(x), y |-> Rat(y4, 4), z |-> RInt(z)]

EmptyCloud == <<>>
\* two points in two buckets, one of them below the axis origin
PairCloud == <<Pt(0, 4, 2), Pt(1, -1, 0)>>
\* five points of radius 5, not in height order: smoothed with window 5, three buckets
RingCloud == <<Pt(3, 8, 4), Pt(5, 0, 0), Pt(0, 4, 5), Pt(4, 2, 3), Pt(3, 6, -4)>>
\* eight points one unit apart: eight buckets, so the merge is smoothed with window 7
TallCloud == <<Pt(3, 0, 4), Pt(0, 28, 2), Pt(1, 4, 0), Pt(0, 8, 3), Pt(4, 12, 3),
               Pt(0, 16, 1), Pt(2, 20, 0), Pt(0, 24, 5)>>

CloudPool == {EmptyCloud, PairCloud, RingCloud, TallCloud}

\* the metadata objects handed to addFragment; Undefined stands for an absent property
Metas ==
    {[fragmentType |-> Undefined, confidence |-> Undefined],
     [fragmentType |-> Str("rim"), confidence |-> Num(Rat(9, 10))]}

\* every sequence over S of length at most n
SeqsUpTo(S, n) == UNION {[1..k -> S] : k \in 0..n}

-----------------------------------------------------------------------------
(* The reconstructor: one action per method *)

NoMesh == [t |-> "none"]
NoCall == [count |-> 0, mesh |-> NoMesh]

InitStore ==
    /\ fragments = <<>>
    /\ lastOp = "new"
    /\ ret = Undefined
    /\ calls = <<>>
    /\ meshSince = NoMesh
    /\ prev = NoCall

\* what the history keeps of the state a call starts in
Before == [count |-> Len(fragments), mesh |-> meshSince]

AddFragment ==
    /\ Len(fragments) < MaxFragments
    /\ \E pointCloud \in CloudPool, metadata \in Metas :
          /\ fragments' = addFragment(fragments, pointCloud, metadata)
          /\ calls' = Append(calls, [pointCloud |-> pointCloud, metadata |-> metadata])
    /\ lastOp' = "addFragment"
    /\ ret' = Undefined
    /\ meshSince' = NoMesh
    /\ prev' = Before
    /\ UNCHANGED <<fnVars, projVars, estVars, appVars>>

Clear ==
    /\ fragments' = clear(fragments)
    /\ calls' = <<>>
    /\ lastOp' = "clear"
    /\ ret' = Undefined
    /\ meshSince' = NoMesh
    /\ prev' = Before
    /\ UNCHANGED <<fnVars, projVars, estVars, appVars>>

Reconstruct ==
    /\ LET out == reconstruct(fragments)
       IN  /\ fragments' = out.fragments
           /\ ret' = out.mesh
           /\ meshSince' = out.mesh
    /\ lastOp' = "reconstruct"
    /\ prev' = Before
    /\ UNCHANGED calls
    /\ UNCHANGED <<fnVars, projVars, estVars, appVars>>

GetStats ==
    /\ ret' = getStats(fragments)
    /\ lastOp' = "getStats"
    /\ prev' = Before
    /\ UNCHANGED <<fragments, calls, meshSince>>
    /\ UNCHANGED <<fnVars, projVars, estVars, appVars>>

NextStore == AddFragment \/ Clear \/ Reconstruct \/ GetStats

\* The store fed with scored fragments: confidences over the whole of [0, 1],
\* both ends included, and absent ones.
ScoredConfidences == {Undefined, Num(RInt(0)), Num(Rat(1, 2)), Num(Rat(9, 10)), Num(RInt(1))}
ScoredMetas ==
    {[fragmentType |-> t, confidence |-> c] :
        t \in {Undefined, Str("rim"), Str("body")}, c \in ScoredConfidences}

AddScoredFragment ==
    /\ Len(fragments) < MaxFragments
    /\ \E metadata \in ScoredMetas :
          /\ fragments' = addFragment(fragments, PairCloud, metadata)
          /\ calls' = Append(calls, [pointCloud |-> PairCloud, metadata |-> metadata])
    /\ lastOp' = "addFragment"
    /\ ret' = Undefined
    /\ meshSince' = NoMesh
    /\ prev' = Before
    /\ UNCHANGED <<fnVars, projVars, estVars, appVars>>

\* buildPotteryMesh(fragments): the module-level helper over the shared
\* reconstructor.  Each entry is handed to addFragment with its fragmentType only.
RECURSIVE AddEach(_, _)
AddEach(frags, fragmentsList) ==
    IF fragmentsList = <<>> THEN frags
    ELSE AddEach(addFragment(frags, Head(fragmentsList).pointCloud,
                             [fragmentType |-> Head(fragmentsList).fragmentType,
                              confidence |-> Undefined]),
                 Tail(fragmentsList))

buildPotteryMesh(frags, fragmentsList) ==
    reconstruct(IF Len(fragmentsList) > 0
                THEN AddEach(clear(frags), fragmentsList)
                ELSE frags)

\* the entries of the lists handed to buildPotteryMesh
MeshEntries ==
    {[pointCloud |-> RingCloud, fragmentType |-> Str("rim")],
     [pointCloud |-> PairCloud, fragmentType |-> Undefined],
     [pointCloud |-> TallCloud, fragmentType |-> Str("base")]}

BuildPotteryMesh ==
    /\ \E fragmentsList \in SeqsUpTo(MeshEntries, MaxFragments) :
          LET out == buildPotteryMesh(fragments, fragmentsList)
          IN  /\ fragments' = out.fragments
              /\ ret' = out.mesh
              /\ meshSince' = out.mesh
              /\ fnIn' = fragmentsList
              /\ fnOut' = out.mesh
              /\ calls' = IF Len(fragmentsList) > 0
                          THEN [i \in 1..Len(fragmentsList) |->
                                  [pointCloud |-> fragmentsList[i].pointCloud,
                                   metadata |-> [fragmentType |-> fragmentsList[i].fragmentType,
                                                 confidence |-> Undefined]]]
                          ELSE calls
    /\ fnOp' = "buildPotteryMesh"
    /\ fnDone' = TRUE
    /\ lastOp' = "reconstruct"
    /\ prev' = Before
    /\ UNCHANGED <<projVars, estVars, appVars>>

\* The store fed with classified fragments: every fragment type the classifier
\* gives, with and without a confidence.
TagClouds == {PairCloud, RingCloud}
TagTypes == {Str("rim"), Str("body"), Str("base"), Str("unknown")}
TagConfidences == {Num(Rat(1, 2)), Num(Rat(9, 10))}
TagMetas ==
    {[fragmentType |-> t, confidence |-> c] :
        t \in {Undefined, Str("rim"), Str("base")},
        c \in {Undefined, Num(Rat(9, 10))}}

AddTaggedFragment ==
    /\ Len(fragments) < MaxFragments
    /\ \E pointCloud \in TagClouds, metadata \in TagMetas :
          /\ fragments' = addFragment(fragments, pointCloud, metadata)
          /\ calls' = Append(calls, [pointCloud |-> pointCloud, metadata |-> metadata])
    /\ lastOp' = "addFragment"
    /\ ret' = Undefined
    /\ meshSince' = NoMesh
    /\ prev' = Before
    /\ UNCHANGED <<fnVars, projVars, estVars, appVars>>

-----------------------------------------------------------------------------
(* The profile functions applied to drawn inputs *)

\* the sample {r, y} with integer r and y = y4 / 4
Sample(r, y4) == [r |-> RInt(r), y |-> Rat(y4, 4)]

\* two points at the same height with different radii, one between two buckets,
\* one below the origin
PointSet == {Pt(3, 0, 4), Pt(4, 3, -3), Pt(0, -5, 5), Pt(0, 0, 2)}

ProfilePool ==
    {<<>>,
     <<Sample(2, 1)>>,
     <<Sample(4, 1), Sample(6, 3)>>,
     <<Sample(1, 12), Sample(3, -1), Sample(5, 0)>>,
     extractSymmetryProfile(RingCloud),
     extractSymmetryProfile(TallCloud)}

InitFn ==
    /\ fnDone = FALSE
    /\ fnOut = <<>>
    /\ \/ fnOp = "extractSymmetryProfile" /\ fnIn \in SeqsUpTo(PointSet, MaxPoints)
       \/ fnOp = "mergeProfiles" /\ fnIn \in SeqsUpTo(ProfilePool, MaxProfiles)

ExtractSymmetryProfile ==
    /\ fnOp = "extractSymmetryProfile" /\ ~fnDone
    /\ fnOut' = extractSymmetryProfile(fnIn)
    /\ fnDone' = TRUE
    /\ UNCHANGED <<fnIn, fnOp>>
    /\ UNCHANGED <<storeVars, projVars, estVars, appVars>>

MergeProfiles ==
    /\ fnOp = "mergeProfiles" /\ ~fnDone
    /\ fnOut' = mergeProfiles(fnIn)
    /\ fnDone' = TRUE
    /\ UNCHANGED <<fnIn, fnOp>>
    /\ UNCHANGED <<storeVars, projVars, estVars, appVars>>

NextFn == ExtractSymmetryProfile \/ MergeProfiles

\* smoothProfile applied directly: profiles in any order of height, and windows
\* of odd and even size
SmoothSamples == {Sample(1, 0), Sample(4, 2), Sample(2, -3)}
WindowSizes == {1, 3, 4, 5, 7}

InitSmooth ==
    /\ fnDone = FALSE
    /\ fnOut = <<>>
    /\ fnOp = "smoothProfile"
    /\ \E profile \in SeqsUpTo(SmoothSamples, MaxPoints), windowSize \in WindowSizes :
          fnIn = [profile |-> profile, windowSize |-> windowSize]

SmoothProfile ==
    /\ fnOp = "smoothProfile" /\ ~fnDone
    /\ fnOut' = smoothProfile(fnIn.profile, fnIn.windowSize)
    /\ fnDone' = TRUE
    /\ UNCHANGED <<fnIn, fnOp>>
    /\ UNCHANGED <<storeVars, projVars, estVars, appVars>>

\* Two fragments of one vessel of radius 3 with disjoint height ranges: the
\* first has its samples in [0, 2], the second in [3, 5] (heights in quarters).
BandRadius == 3
LowHeights == {0, 3, 6, 8}
HighHeights == {12, 14, 16, 20}

\* the profile with one sample of radius BandRadius at each of the heights ys,
\* in ascending order
RECURSIVE BandProfile(_)
BandProfile(ys) ==
    IF ys = {} THEN <<>>
    ELSE LET lowest == CHOOSE y \in ys : \A z \in ys : y <= z
         IN  <<Sample(BandRadius, lowest)>> \o BandProfile(ys \ {lowest})

BandProfiles(heights) == {BandProfile(ys) : ys \in (SUBSET heights) \ {{}}}

InitBands ==
    /\ fnDone = FALSE
    /\ fnOut = <<>>
    /\ fnOp = "mergeProfiles"
    /\ \E low \in BandProfiles(LowHeights), high \in BandProfiles(HighHeights) :
          fnIn \in {<<low, high>>, <<high, low>>}

-----------------------------------------------------------------------------
(* DepthEstimator.depthToPointCloud *)

DepthScale == 10
BackgroundThreshold == Rat(1, 10)

\* cameraIntrinsics?.f for a field f
OptField(obj, f) == IF obj = Null \/ obj = Undefined THEN Undefined ELSE obj[f]

\* mutant: z >= 0.1
IsForeground_Geq(z) == RLeq(BackgroundThreshold, z)

\* z > 0.1
IsForeground(z) == RLess(BackgroundThreshold, z)

depthToPointCloud(depthData, intrinsics) ==
    LET height == Len(depthData)
        width == Len(depthData[1])
        fx == OrElse(OptField(intrinsics, "fx"), Num(Rat(width, 2))).v
        fy == OrElse(OptField(intrinsics, "fy"), Num(Rat(height, 2))).v
        cx == OrElse(OptField(intrinsics, "cx"), Num(Rat(width, 2))).v
        cy == OrElse(OptField(intrinsics, "cy"), Num(Rat(height, 2))).v
        \* the array `points` after the first k pixels in raster order
        ScanTo[k \in 0..(height * width)] ==
            IF k = 0 THEN <<>>
            ELSE LET v == (k - 1) \div width
                     u == (k - 1) % width
                     z == RMul(depthData[v + 1][u + 1][1], RInt(DepthScale))
                 IN  IF IsForeground(z)
                     THEN Append(ScanTo[k - 1],
                                 [x |-> RDiv(RMul(RSub(RInt(u), cx), z), fx),
                                  y |-> RDiv(RMul(RSub(RInt(v), cy), z), fy),
                                  z |-> z])
                     ELSE ScanTo[k - 1]
    IN  ScanTo[height * width]

\* depth values: background, the threshold itself (z = 0.1), the farthest
DepthVals == {RInt(0), Rat(1, 100), RInt(1)}

DepthMaps ==
    UNION {[1..h -> [1..w -> {<<d>> : d \in DepthVals}]] : h \in 1..MaxDim, w \in 1..MaxDim}

IntrinsicsPool ==
    {Null,
     [fx |-> Num(RInt(2)), fy |-> Num(RInt(3)), cx |-> Num(RInt(1)), cy |-> Num(Rat(1, 2))],
     [fx |-> Num(RInt(4)), fy |-> Undefined, cx |-> Num(RInt(0)), cy |-> Undefined]}

InitProj ==
    /\ depthMap \in DepthMaps
    /\ cameraIntrinsics \in IntrinsicsPool
    /\ points = <<>>
    /\ projDone = FALSE

DepthToPointCloud ==
    /\ ~projDone
    /\ points' = depthToPointCloud(depthMap, cameraIntrinsics)
    /\ projDone' = TRUE
    /\ UNCHANGED <<depthMap, cameraIntrinsics>>
    /\ UNCHANGED <<storeVars, fnVars, estVars, appVars>>

NextProj == DepthToPointCloud

-----------------------------------------------------------------------------
(* DepthEstimator: life cycle and estimateDepth *)

\* the 1e-7 of the final normalisation
Epsilon == Rat(1, 10000000)

RECURSIVE FieldMin(_)
FieldMin(vals) ==
    IF Len(vals) = 1 THEN vals[1]
    ELSE LET m == FieldMin(SubSeq(vals, 1, Len(vals) - 1))
         IN  IF RLess(vals[Len(vals)], m) THEN vals[Len(vals)] ELSE m

RECURSIVE FieldMax(_)
FieldMax(vals) ==
    IF Len(vals) = 1 THEN vals[1]
    ELSE LET m == FieldMax(SubSeq(vals, 1, Len(vals) - 1))
         IN  IF RLess(m, vals[Len(vals)]) THEN vals[Len(vals)] ELSE m

\* the values of a field [H, W, 1], row after row
RECURSIVE FieldValues(_)
FieldValues(field) ==
    IF field = <<>> THEN <<>>
    ELSE FieldValues(SubSeq(field, 1, Len(field) - 1))
         \o [u \in 1..Len(field[Len(field)]) |-> field[Len(field)][u][1]]

\* mutant: the divisor is max - min, without the 1e-7
NormalizeDivisor_NoEpsilon(field) ==
    RSub(FieldMax(FieldValues(field)), FieldMin(FieldValues(field)))

\* step 8, the divisor: max.sub(min).add(1e-7)
NormalizeDivisor(field) ==
    RAdd(RSub(FieldMax(FieldValues(field)), FieldMin(FieldValues(field))), Epsilon)

\* mutant: the minimum is not subtracted
NormalizeDepth_NoShift(field) ==
    [v \in 1..Len(field) |->
        [u \in 1..Len(field[v]) |->
            <<RDiv(field[v][u][1], NormalizeDivisor(field))>>]]

\* step 8: smoothed.sub(min).div(max.sub(min).add(1e-7))
NormalizeDepth(field) ==
    [v \in 1..Len(field) |->
        [u \in 1..Len(field[v]) |->
            <<RDiv(RSub(field[v][u][1], FieldMin(FieldValues(field))),
                   NormalizeDivisor(field))>>]]

\* Shapes of the tensors of steps 1 to 7.
\* tf.browser.fromPixels(imgElement): [height, width, 3]
FromPixelsShape(img) == <<img.height, img.width, 3>>
\* rgb.mean(2, true): the channel axis is reduced and kept
MeanKeepDimsShape(shape) == <<shape[1], shape[2], 1>>
\* tf.conv2d(x.expandDims(0), kernel, 1, 'same').squeeze([0]): with 'same'
\* padding the output extent is ceil(input / stride)
CeilDiv(a, b) == (a + b - 1) \div b
Conv2dSameShape(shape, stride) ==
    <<CeilDiv(shape[1], stride), CeilDiv(shape[2], stride), 1>>
\* grayscale, then Sobel / gradient (one convolution each way, combined
\* element by element), the blend, then the blur; every convolution has stride 1
SmoothedShape(img) ==
    Conv2dSameShape(Conv2dSameShape(MeanKeepDimsShape(FromPixelsShape(img)), 1), 1)

\* estimateDepth(imgElement).  Steps 1 to 7 (grey scale, Sobel magnitude, gradient
\* magnitude, the 0.6 / 0.4 blend, Gaussian blur) are convolutions with 'same'
\* padding, square roots and exponentials; their result is a parameter here, any
\* field of the shape those steps produce.
\* The raster is handed to the library unchecked.  tf.browser.fromPixels throws
\* on null; what it does with a raster of zero height or width is the library's
\* and the backend's affair (an error, or a tensor [H, W, 3] without elements),
\* given here by `zeroSizeAccepted`.
estimateDepth(isInitialized, img, smoothedField, zeroSizeAccepted) ==
    IF ~isInitialized
    THEN [kind |-> "throw", error |-> "DepthEstimator not initialized"]
    ELSE IF img = Null
    THEN [kind |-> "throw", error |-> "pixels passed to tf.browser.fromPixels() can not be null"]
    ELSE IF (img.height = 0 \/ img.width = 0) /\ ~zeroSizeAccepted
    THEN [kind |-> "throw", error |-> "tf.browser.fromPixels"]
    ELSE [kind |-> "return", depth |-> NormalizeDepth(smoothedField)]

\* this.initialized after `await tf.ready()` has resolved
initialize(isInitialized) == TRUE

\* mutant: dispose() leaves the flag as it is
dispose_KeepsFlag(isInitialized) == isInitialized

\* this.initialized after dispose()
dispose(isInitialized) == FALSE

\* the rasters: null, and every height and width from 0 on
ImageWidths == {0, 1, 2}
Images ==
    {Null} \cup {[height |-> h, width |-> w] : h \in 0..MaxDim, w \in ImageWidths}

SmoothedVals == {Rat(-1, 2), RInt(0), Rat(3, 10)}

SmoothedFields(img) ==
    IF img = Null THEN {<<>>}
    ELSE
    [1..SmoothedShape(img)[1] ->
        [1..SmoothedShape(img)[2] -> {<<s>> : s \in SmoothedVals}]]

\* a raster with at least one row and one column
ValidRaster(img) == "height" \in DOMAIN img /\ img.height >= 1 /\ img.width >= 1

NoOutcome == [kind |-> "none"]

\* classifier.js line 296: no classifier yet, no call made
IdleClassifier == classifierInstance = 0 /\ classifiers = <<>> /\ clsCalls = <<>>

InitEst ==
    /\ initialized = FALSE
    /\ pendingInit = 0
    /\ lastEvent = "constructed"
    /\ imgElement \in Images
    /\ smoothed \in SmoothedFields(imgElement)
    /\ estOut = NoOutcome
    /\ depthEstimatorInstance = "estimator"
    /\ estCalls = <<>>
    /\ IdleClassifier

\* initialize() runs up to `await tf.ready()`
InitializeCall ==
    /\ pendingInit < MaxPending
    /\ pendingInit' = pendingInit + 1
    /\ estOut' = NoOutcome
    /\ UNCHANGED <<initialized, lastEvent, imgElement, smoothed, instVars>>
    /\ UNCHANGED <<storeVars, fnVars, projVars, appVars>>

\* tf.ready() resolved: the rest of initialize() runs
InitializeResume ==
    /\ pendingInit > 0
    /\ pendingInit' = pendingInit - 1
    /\ initialized' = initialize(initialized)
    /\ lastEvent' = "initialized"
    /\ estOut' = NoOutcome
    /\ UNCHANGED <<imgElement, smoothed, instVars>>
    /\ UNCHANGED <<storeVars, fnVars, projVars, appVars>>

\* tf.ready() rejected: initialize() rejects and assigns nothing
InitializeReject ==
    /\ pendingInit > 0
    /\ pendingInit' = pendingInit - 1
    /\ estOut' = NoOutcome
    /\ UNCHANGED <<initialized, lastEvent, imgElement, smoothed, instVars>>
    /\ UNCHANGED <<storeVars, fnVars, projVars, appVars>>

Dispose ==
    /\ initialized' = dispose(initialized)
    /\ lastEvent' = "disposed"
    /\ estOut' = NoOutcome
    /\ UNCHANGED <<pendingInit, imgElement, smoothed, instVars>>
    /\ UNCHANGED <<storeVars, fnVars, projVars, appVars>>

EstimateDepth ==
    /\ \E zeroSizeAccepted \in BOOLEAN :
          estOut' = estimateDepth(initialized, imgElement, smoothed, zeroSizeAccepted)
    /\ UNCHANGED <<initialized, pendingInit, lastEvent, imgElement, smoothed, instVars>>
    /\ UNCHANGED <<storeVars, fnVars, projVars, appVars>>

NextEst == InitializeCall \/ InitializeResume \/ InitializeReject \/ Dispose \/ EstimateDepth

-----------------------------------------------------------------------------
(* getDepthEstimator: the module's singleton and the calls that ask for it *)

\* getDepthEstimator() up to its first suspension.  Without an instance it
\* creates one and suspends in `await depthEstimatorInstance.initialize()`;
\* with an instance it returns it, and its promise resolves to the estimator as
\* it is then.
GetDepthEstimator ==
    /\ Len(estCalls) < MaxCalls
    /\ IF depthEstimatorInstance = "none"
       THEN /\ depthEstimatorInstance' = "estimator"
            /\ initialized' = FALSE
            /\ pendingInit' = pendingInit + 1
            /\ estCalls' = Append(estCalls, [status |-> "awaiting", ready |-> FALSE])
       ELSE /\ estCalls' = Append(estCalls, [status |-> "resolved", ready |-> initialized])
            /\ UNCHANGED <<depthEstimatorInstance, initialized, pendingInit>>
    /\ UNCHANGED <<lastEvent, imgElement, smoothed, estOut>>
    /\ UNCHANGED clsVars
    /\ UNCHANGED <<storeVars, fnVars, projVars, appVars>>

\* tf.ready() resolves: initialize() sets the flag, and the call suspended on it
\* returns the instance
TfReadyResolves ==
    /\ pendingInit > 0
    /\ pendingInit' = pendingInit - 1
    /\ initialized' = initialize(initialized)
    /\ lastEvent' = "initialized"
    /\ estCalls' = [i \in 1..Len(estCalls) |->
                      IF estCalls[i].status = "awaiting"
                      THEN [status |-> "resolved", ready |-> initialize(initialized)]
                      ELSE estCalls[i]]
    /\ UNCHANGED <<depthEstimatorInstance, imgElement, smoothed, estOut>>
    /\ UNCHANGED clsVars
    /\ UNCHANGED <<storeVars, fnVars, projVars, appVars>>

\* tf.ready() rejects: initialize() and the call suspended on it reject; the
\* instance stays assigned
TfReadyRejects ==
    /\ pendingInit > 0
    /\ pendingInit' = pendingInit - 1
    /\ estCalls' = [i \in 1..Len(estCalls) |->
                      IF estCalls[i].status = "awaiting"
                      THEN [status |-> "rejected", ready |-> FALSE]
                      ELSE estCalls[i]]
    /\ UNCHANGED <<depthEstimatorInstance, initialized, lastEvent, imgElement, smoothed, estOut>>
    /\ UNCHANGED clsVars
    /\ UNCHANGED <<storeVars, fnVars, projVars, appVars>>

\* the images the callers of getDepthEstimator() hand to the estimator
CallerImages == {Null, [height |-> 1, width |-> 1], [height |-> 1, width |-> 0]}

\* a caller that holds the estimator runs estimateDepth on it
UseEstimator ==
    /\ \E i \in 1..Len(estCalls) : estCalls[i].status = "resolved"
    /\ \E img \in CallerImages : \E field \in SmoothedFields(img) :
          /\ imgElement' = img
          /\ smoothed' = field
          /\ estOut' = estimateDepth(initialized, img, field, FALSE)
    /\ UNCHANGED <<initialized, pendingInit, lastEvent, instVars>>
    /\ UNCHANGED <<storeVars, fnVars, projVars, appVars>>

NextSingleton == GetDepthEstimator \/ TfReadyResolves \/ TfReadyRejects \/ UseEstimator

-----------------------------------------------------------------------------
(* getFragmentClassifier: the classifier singleton, its loads and its pollers *)

UNCHANGED_Estimator ==
    UNCHANGED <<initialized, pendingInit, lastEvent, imgElement, smoothed, estOut,
                depthEstimatorInstance, estCalls>>

\* new FragmentClassifier()
NewClassifier == [loading |-> FALSE, loaded |-> FALSE, running |-> FALSE, mobileNet |-> FALSE]

\* classifierInstance?.loaded and classifierInstance?.loading
InstanceLoaded(instance, objs) == instance # 0 /\ objs[instance].loaded
InstanceLoading(instance, objs) == instance # 0 /\ objs[instance].loading

\* getFragmentClassifier() up to its first suspension: it returns a loaded
\* instance at once; otherwise it creates the instance if there is none, and
\* either starts initialize() on it (which sets loading and suspends in
\* `await tf.ready()`) or, if the instance is loading, enters the polling loop.
GetFragmentClassifier ==
    /\ Len(clsCalls) < MaxCalls
    /\ IF InstanceLoaded(classifierInstance, classifiers)
       THEN /\ clsCalls' = Append(clsCalls, [pc |-> "resolved", obj |-> classifierInstance,
                                             loaded |-> TRUE])
            /\ UNCHANGED <<classifierInstance, classifiers>>
       ELSE LET objs == IF classifierInstance = 0
                        THEN Append(classifiers, NewClassifier) ELSE classifiers
                inst == IF classifierInstance = 0 THEN Len(objs) ELSE classifierInstance
            IN  /\ classifierInstance' = inst
                /\ IF ~objs[inst].loading
                   THEN /\ classifiers' = [objs EXCEPT ![inst].loading = TRUE,
                                                       ![inst].running = TRUE]
                        /\ clsCalls' = Append(clsCalls, [pc |-> "awaitInitialize",
                                                         obj |-> inst, loaded |-> FALSE])
                   ELSE /\ classifiers' = objs
                        /\ clsCalls' = Append(clsCalls, [pc |-> "polling",
                                                         obj |-> inst, loaded |-> FALSE])
    /\ UNCHANGED_Estimator
    /\ UNCHANGED <<storeVars, fnVars, projVars, appVars>>

\* initialize() of classifier o completes (lines 83-84); the call awaiting it
\* goes on with lines 313-314 on whatever classifierInstance is by then, and
\* returns it (or fails on a null instance, which its catch turns into a reset
\* and a rejection)
InitializeSucceeds ==
    /\ \E o \in 1..Len(classifiers) :
          /\ classifiers[o].running
          /\ LET done == [classifiers EXCEPT ![o].loaded = TRUE, ![o].loading = FALSE,
                                             ![o].running = FALSE, ![o].mobileNet = TRUE]
                 waiting == \E k \in 1..Len(clsCalls) :
                               clsCalls[k].pc = "awaitInitialize" /\ clsCalls[k].obj = o
                 after == IF waiting /\ classifierInstance # 0
                          THEN [done EXCEPT ![classifierInstance].loaded = TRUE,
                                            ![classifierInstance].loading = FALSE]
                          ELSE done
             IN  /\ classifiers' = after
                 /\ clsCalls' = [k \in 1..Len(clsCalls) |->
                       IF clsCalls[k].pc = "awaitInitialize" /\ clsCalls[k].obj = o
                       THEN IF classifierInstance = 0
                            THEN [pc |-> "rejected", obj |-> 0, loaded |-> FALSE]
                            ELSE [pc |-> "resolved", obj |-> classifierInstance,
                                  loaded |-> after[classifierInstance].loaded]
                       ELSE clsCalls[k]]
    /\ UNCHANGED classifierInstance
    /\ UNCHANGED_Estimator
    /\ UNCHANGED <<storeVars, fnVars, projVars, appVars>>

\* initialize() of classifier o fails (lines 86-90); the catch of the call
\* awaiting it resets classifierInstance and rethrows (lines 315-320)
InitializeFails ==
    /\ \E o \in 1..Len(classifiers) :
          /\ classifiers[o].running
          /\ LET waiting == \E k \in 1..Len(clsCalls) :
                               clsCalls[k].pc = "awaitInitialize" /\ clsCalls[k].obj = o
             IN  /\ classifiers' = [classifiers EXCEPT ![o].loading = FALSE,
                                                       ![o].running = FALSE]
                 /\ classifierInstance' = IF waiting THEN 0 ELSE classifierInstance
                 /\ clsCalls' = [k \in 1..Len(clsCalls) |->
                       IF clsCalls[k].pc = "awaitInitialize" /\ clsCalls[k].obj = o
                       THEN [pc |-> "rejected", obj |-> 0, loaded |-> FALSE]
                       ELSE clsCalls[k]]
    /\ UNCHANGED_Estimator
    /\ UNCHANGED <<storeVars, fnVars, projVars, appVars>>

\* a polling call wakes up and finds the instance no longer loading: it leaves
\* the loop and returns the instance if it is loaded, else throws
PollCompletes ==
    /\ \E k \in 1..Len(clsCalls) :
          /\ clsCalls[k].pc = "polling"
          /\ ~InstanceLoading(classifierInstance, classifiers)
          /\ clsCalls' = [clsCalls EXCEPT ![k] =
                IF InstanceLoaded(classifierInstance, classifiers)
                THEN [pc |-> "resolved", obj |-> classifierInstance, loaded |-> TRUE]
                ELSE [pc |-> "rejected", obj |-> 0, loaded |-> FALSE]]
    /\ UNCHANGED <<classifierInstance, classifiers>>
    /\ UNCHANGED_Estimator
    /\ UNCHANGED <<storeVars, fnVars, projVars, appVars>>

\* a polling call wakes up after maxWaitTime with the instance still loading:
\* it resets classifierInstance and throws (lines 331-336)
PollTimesOut ==
    /\ \E k \in 1..Len(clsCalls) :
          /\ clsCalls[k].pc = "polling"
          /\ InstanceLoading(classifierInstance, classifiers)
          /\ clsCalls' = [clsCalls EXCEPT ![k] =
                [pc |-> "rejected", obj |-> 0, loaded |-> FALSE]]
    /\ classifierInstance' = 0
    /\ UNCHANGED classifiers
    /\ UNCHANGED_Estimator
    /\ UNCHANGED <<storeVars, fnVars, projVars, appVars>>

NextClassifier ==
    \/ GetFragmentClassifier \/ InitializeSucceeds \/ InitializeFails
    \/ PollCompletes \/ PollTimesOut

-----------------------------------------------------------------------------
(* components/CameraCapture.jsx: camera, captureImage and its image handlers *)

UNCHANGED_App ==
    UNCHANGED <<appFragments, reconstructedMesh, processing, inFlight, delivered,
                storeBefore, deliveredResults, camVars>>

\* the mount effect: getDepthEstimator().then(setDepthEstimator).  The promise
\* may resolve to an estimator that is not initialized yet.
SetDepthEstimator ==
    /\ ccDepthEstimator = Null
    /\ \E isInitialized \in BOOLEAN :
          ccDepthEstimator' = [initialized |-> isInitialized]
    /\ UNCHANGED <<ccStreamStarted, ccProcessing, ccStage, ccLog>>
    /\ UNCHANGED_App /\ UNCHANGED <<storeVars, fnVars, projVars, estVars>>

\* startCamera, from the click to setStreamStarted(true) or the alert
StartCameraCC ==
    /\ ~ccStreamStarted
    /\ \E granted \in BOOLEAN : ccStreamStarted' = granted
    /\ UNCHANGED <<ccProcessing, ccDepthEstimator, ccStage, ccLog>>
    /\ UNCHANGED_App /\ UNCHANGED <<storeVars, fnVars, projVars, estVars>>

StopCameraCC ==
    /\ ccStreamStarted
    /\ ccStreamStarted' = FALSE
    /\ UNCHANGED <<ccProcessing, ccDepthEstimator, ccStage, ccLog>>
    /\ UNCHANGED_App /\ UNCHANGED <<storeVars, fnVars, projVars, estVars>>

\* captureImage: the synchronous part.  The button is rendered while the stream
\* is on and disabled while processing.
CaptureImage ==
    /\ ccStreamStarted /\ ~ccProcessing
    /\ Len(ccLog) < MaxCaptures
    /\ IF ccDepthEstimator = Null
       THEN UNCHANGED <<ccProcessing, ccStage, ccLog>>
       ELSE \E drawThrows \in BOOLEAN :
              IF drawThrows
              THEN /\ ccProcessing' = FALSE
                   /\ ccLog' = Append(ccLog, "capture error")
                   /\ UNCHANGED ccStage
              ELSE /\ ccProcessing' = TRUE
                   /\ ccStage' = "loading"
                   /\ UNCHANGED ccLog
    /\ UNCHANGED <<ccStreamStarted, ccDepthEstimator>>
    /\ UNCHANGED_App /\ UNCHANGED <<storeVars, fnVars, projVars, estVars>>

\* img.onerror
ImageError ==
    /\ ccStage = "loading"
    /\ ccProcessing' = FALSE
    /\ ccStage' = "idle"
    /\ ccLog' = Append(ccLog, "load failed")
    /\ UNCHANGED <<ccStreamStarted, ccDepthEstimator>>
    /\ UNCHANGED_App /\ UNCHANGED <<storeVars, fnVars, projVars, estVars>>

\* img.onload up to `await classifyFragment(img)`
ImageLoad ==
    /\ ccStage = "loading"
    /\ ccStage' = "classifying"
    /\ UNCHANGED <<ccStreamStarted, ccProcessing, ccDepthEstimator, ccLog>>
    /\ UNCHANGED_App /\ UNCHANGED <<storeVars, fnVars, projVars, estVars>>

\* classifyFragment rejects: the async onload handler rejects, nothing catches it
ClassifyRejects ==
    /\ ccStage = "classifying"
    /\ ccStage' = "idle"
    /\ ccLog' = Append(ccLog, "classification threw")
    /\ UNCHANGED <<ccStreamStarted, ccProcessing, ccDepthEstimator>>
    /\ UNCHANGED_App /\ UNCHANGED <<storeVars, fnVars, projVars, estVars>>

\* classifyFragment resolves: estimateDepth, depthToPointCloud, then the handler
\* suspends in `await depthTensor.array()`; a throw of either call rejects the
\* handler
ClassifyResolves ==
    /\ ccStage = "classifying"
    /\ \E libraryThrows \in BOOLEAN, projectionThrows \in BOOLEAN :
          IF ~ccDepthEstimator.initialized \/ libraryThrows
          THEN /\ ccStage' = "idle"
               /\ ccLog' = Append(ccLog, "depth estimation threw")
          ELSE IF projectionThrows
          THEN /\ ccStage' = "idle"
               /\ ccLog' = Append(ccLog, "projection threw")
          ELSE /\ ccStage' = "converting"
               /\ UNCHANGED ccLog
    /\ UNCHANGED <<ccStreamStarted, ccProcessing, ccDepthEstimator>>
    /\ UNCHANGED_App /\ UNCHANGED <<storeVars, fnVars, projVars, estVars>>

\* depthTensor.array() resolves: onResult(...), dispose, setProcessing(false)
DeliverCapture ==
    /\ ccStage = "converting"
    /\ ccStage' = "idle"
    /\ ccProcessing' = FALSE
    /\ ccLog' = Append(ccLog, "delivered")
    /\ UNCHANGED <<ccStreamStarted, ccDepthEstimator>>
    /\ UNCHANGED_App /\ UNCHANGED <<storeVars, fnVars, projVars, estVars>>

NextCameraCapture ==
    \/ SetDepthEstimator \/ StartCameraCC \/ StopCameraCC \/ CaptureImage
    \/ ImageError \/ ImageLoad \/ ClassifyRejects \/ ClassifyResolves \/ DeliverCapture

-----------------------------------------------------------------------------
(* App: capture results, the fragment list and the rebuild of the store *)

Array(a) == [t |-> "array", v |-> a]

\* setError(`Processing failed: ${procErr.message}`), the message left out
ProcessingFailed == Str("Processing failed")

NoRun == [ran |-> FALSE]
NoCameraOp == [op |-> "none"]

\* what processImage hands to onResult when it succeeds ...
OkResult(cloud, type, confidence) ==
    [pointCloud |-> Array(cloud),
     classification |-> [fragmentType |-> Str(type), confidence |-> Num(confidence)],
     error |-> Undefined]

\* ... and from its catch branch
FailedResult ==
    [pointCloud |-> Undefined, classification |-> Undefined,
     error |-> Str("Failed to estimate depth")]

\* the second result is the one of a projection error, caught with pointCloud = []
Results ==
    {OkResult(RingCloud, "rim", Rat(9, 10)),
     OkResult(EmptyCloud, "unknown", RInt(0)),
     FailedResult}

\* fragment.pointCloud && fragment.pointCloud.length > 0
HasPointCloud(fragment) ==
    Truthy(fragment.pointCloud) /\ Len(fragment.pointCloud.v) > 0

MetadataOf(fragment) ==
    [fragmentType |-> OptField(fragment.classification, "fragmentType"),
     confidence |-> OptField(fragment.classification, "confidence")]

\* the forEach of reconstructPottery
RECURSIVE AddAll(_, _)
AddAll(frags, fragmentsList) ==
    IF fragmentsList = <<>> THEN frags
    ELSE AddAll(IF HasPointCloud(Head(fragmentsList))
                THEN addFragment(frags, Head(fragmentsList).pointCloud.v,
                                 MetadataOf(Head(fragmentsList)))
                ELSE frags,
                Tail(fragmentsList))

\* mutant: the store is not cleared before the list is added
reconstructPottery_NoClear(frags, fragmentsList) ==
    [fragments |-> reconstruct(AddAll(frags, fragmentsList)).fragments,
     mesh |-> reconstruct(AddAll(frags, fragmentsList)).mesh,
     stats |-> getStats(reconstruct(AddAll(frags, fragmentsList)).fragments)]

\* reconstructPottery(fragmentsList) on the shared reconstructor: its store and
\* the mesh given to setReconstructedMesh
reconstructPottery(frags, fragmentsList) ==
    LET out == reconstruct(AddAll(clear(frags), fragmentsList))
    IN  [fragments |-> out.fragments, mesh |-> out.mesh, stats |-> getStats(out.fragments)]

\* newFragments of handleCaptureResult: `fragments` is the list of the render
\* the callback was created in
handleCaptureResult(closedOver, result) == Append(closedOver, result)

RemoveAt(seq, k) == SubSeq(seq, 1, k - 1) \o SubSeq(seq, k + 1, Len(seq))

\* captureFromCamera / captureFromFile: the image starts to load; its onload
\* handler calls the processImage, and through it the onResult, of this render
StartCapture ==
    /\ ~processing
    /\ Len(appFragments) + Len(inFlight) < MaxCaptures
    /\ inFlight' = Append(inFlight, [closedOver |-> appFragments, phase |-> "loading"])
    /\ delivered' = "none"
    /\ storeBefore' = fragments
    /\ UNCHANGED deliveredResults
    /\ UNCHANGED <<appFragments, reconstructedMesh, processing>>
    /\ UNCHANGED camVars
    /\ UNCHANGED <<storeVars, fnVars, projVars, estVars, ccVars>>

\* img.onload: processImage begins with setProcessing(true)
ProcessImageBegin ==
    /\ \E k \in 1..Len(inFlight) :
          /\ inFlight[k].phase = "loading"
          /\ inFlight' = [inFlight EXCEPT ![k].phase = "processing"]
    /\ processing' = TRUE
    /\ delivered' = "none"
    /\ storeBefore' = fragments
    /\ UNCHANGED deliveredResults
    /\ UNCHANGED <<appFragments, reconstructedMesh>>
    /\ error' = Null
    /\ UNCHANGED <<streamStarted, srcObject, tracks, lastRun, lastCameraOp>>
    /\ UNCHANGED <<storeVars, fnVars, projVars, estVars, ccVars>>

\* processImage ends: onResult(result), that is handleCaptureResult and
\* reconstructPottery, then setProcessing(false)
DeliverResult ==
    /\ \E k \in 1..Len(inFlight), result \in Results :
          /\ inFlight[k].phase = "processing"
          /\ LET newFragments == handleCaptureResult(inFlight[k].closedOver, result)
                 rebuilt == reconstructPottery(fragments, newFragments)
             IN  /\ appFragments' = newFragments
                 /\ fragments' = rebuilt.fragments
                 /\ reconstructedMesh' = rebuilt.mesh
                 /\ meshSince' = rebuilt.mesh
                 /\ ret' = rebuilt.stats
                 /\ calls' = [i \in 1..Len(SelectSeq(newFragments, HasPointCloud)) |->
                       [pointCloud |-> SelectSeq(newFragments, HasPointCloud)[i].pointCloud.v,
                        metadata |-> MetadataOf(SelectSeq(newFragments, HasPointCloud)[i])]]
          /\ inFlight' = RemoveAt(inFlight, k)
          /\ delivered' = IF result.error = Undefined THEN "ok" ELSE "failed"
          /\ error' = IF result.error = Undefined THEN error ELSE ProcessingFailed
          /\ deliveredResults' =
                [deliveredResults EXCEPT !.list =
                     IF deliveredResults.tracked THEN Append(deliveredResults.list, result)
                     ELSE <<>>]
    /\ processing' = FALSE
    /\ lastOp' = "getStats"
    /\ prev' = Before
    /\ storeBefore' = fragments
    /\ UNCHANGED <<streamStarted, srcObject, tracks, lastRun, lastCameraOp>>
    /\ UNCHANGED <<fnVars, projVars, estVars, ccVars>>

\* clearFragments (its button is disabled while the list is empty)
ClearFragments ==
    /\ Len(appFragments) > 0
    /\ appFragments' = <<>>
    /\ reconstructedMesh' = Null
    /\ fragments' = clear(fragments)
    /\ calls' = <<>>
    /\ lastOp' = "clear"
    /\ ret' = Undefined
    /\ meshSince' = NoMesh
    /\ prev' = Before
    /\ delivered' = "none"
    /\ storeBefore' = fragments
    /\ deliveredResults' = [tracked |-> inFlight = <<>>, list |-> <<>>]
    /\ UNCHANGED <<processing, inFlight>>
    /\ UNCHANGED camVars
    /\ UNCHANGED <<fnVars, projVars, estVars, ccVars>>

NextApp == StartCapture \/ ProcessImageBegin \/ DeliverResult \/ ClearFragments

-----------------------------------------------------------------------------
(* The capture component with processImage (part_009): processImage computed
   from what its calls give, startCamera and stopCamera *)

\* App renders the component only once the models are loaded
modelsReady == TRUE

\* the object processImage hands to onResult from its catch branch
ErrorResult(message) ==
    [pointCloud |-> Undefined, classification |-> Undefined, error |-> Str(message)]

\* the fallback of classifyFragment(imgElement).catch(...)
FallbackClassification == [fragmentType |-> Str("unknown"), confidence |-> Num(RInt(0))]

\* what estimateDepth gives is a tensor or a throw; a tensor has no catch method
HasCatchMethod(value) == value.t = "promise"
Tensor(data) == [t |-> "tensor", v |-> data]

\* processImage from line 175 on: the results it hands to onResult.
\*   estimatorLoaded   getDepthEstimator() resolves (else rejects)
\*   classification    the classification, or Null when classifyFragment rejects
\*   depth             the outcome of depthEstimator.estimateDepth(imgElement)
\*   cloud             the point cloud, or Null when depthToPointCloud throws
processImage(estimatorLoaded, classification, depth, cloud) ==
    IF ~estimatorLoaded
    THEN <<ErrorResult("Failed to load depth estimation model")>>
    ELSE IF depth.kind = "throw" THEN <<ErrorResult(depth.error)>>
    ELSE IF ~HasCatchMethod(Tensor(depth.depth))
    THEN <<ErrorResult("estimateDepth(...).catch is not a function")>>
    ELSE <<[pointCloud |-> Array(IF cloud = Null THEN <<>> ELSE cloud),
            classification |-> IF classification = Null THEN FallbackClassification
                               ELSE classification,
            error |-> Undefined]>>

\* the images processImage is handed: an image that did not decode, a 1 x 1 raster
PanelImages == {[height |-> 0, width |-> 0], [height |-> 1, width |-> 1]}

Classifications == {Null, [fragmentType |-> Str("rim"), confidence |-> Num(Rat(9, 10))]}
ProjectedClouds == {Null, RingCloud}

\* processImage runs to its end: onResult(result) reaches handleCaptureResult and
\* reconstructPottery
ProcessImage ==
    /\ \E k \in 1..Len(inFlight), estimatorLoaded \in BOOLEAN, isInitialized \in BOOLEAN,
          classification \in Classifications, img \in PanelImages,
          cloud \in ProjectedClouds :
          \E field \in {CHOOSE f \in SmoothedFields(img) : TRUE} :
          /\ inFlight[k].phase = "processing"
          /\ LET depth == estimateDepth(isInitialized, img, field, FALSE)
                 results == processImage(estimatorLoaded, classification, depth, cloud)
                 result == results[1]
                 newFragments == handleCaptureResult(inFlight[k].closedOver, result)
                 rebuilt == reconstructPottery(fragments, newFragments)
             IN  /\ appFragments' = newFragments
                 /\ fragments' = rebuilt.fragments
                 /\ reconstructedMesh' = rebuilt.mesh
                 /\ meshSince' = rebuilt.mesh
                 /\ ret' = rebuilt.stats
                 /\ calls' = [i \in 1..Len(SelectSeq(newFragments, HasPointCloud)) |->
                       [pointCloud |-> SelectSeq(newFragments, HasPointCloud)[i].pointCloud.v,
                        metadata |-> MetadataOf(SelectSeq(newFragments, HasPointCloud)[i])]]
                 /\ delivered' = IF result.error = Undefined THEN "ok" ELSE "failed"
                 /\ error' = IF result.error = Undefined THEN error ELSE ProcessingFailed
                 /\ deliveredResults' =
                       [deliveredResults EXCEPT !.list =
                     IF deliveredResults.tracked THEN Append(deliveredResults.list, result)
                     ELSE <<>>]
                 /\ lastRun' = [ran |-> TRUE,
                                estimatorLoaded |-> estimatorLoaded,
                                classificationFailed |-> classification = Null,
                                depthSucceeded |-> depth.kind = "return",
                                results |-> results]
          /\ inFlight' = RemoveAt(inFlight, k)
    /\ processing' = FALSE
    /\ lastOp' = "getStats"
    /\ prev' = Before
    /\ storeBefore' = fragments
    /\ UNCHANGED <<streamStarted, srcObject, tracks, lastCameraOp>>
    /\ UNCHANGED <<fnVars, projVars, estVars, ccVars>>

\* videoRef.current: the video element is rendered only while streamStarted
VideoMounted == streamStarted

\* startCamera, its awaits collapsed: what it leaves of streamStarted, srcObject,
\* tracks and error, given what the browser answers
startCamera(cam, mounted, granted, metadataLoads, playResolves) ==
    IF ~mounted
    THEN [cam EXCEPT !.error = Str("Video element not available. Try reloading the page.")]
    ELSE IF ~modelsReady
    THEN [cam EXCEPT !.error =
            Str("AI models not ready yet. Please wait for loading to complete.")]
    ELSE IF ~granted
    THEN [cam EXCEPT !.error = Str("Camera failed: Permission denied")]
    ELSE IF ~metadataLoads
    THEN [cam EXCEPT !.srcObject = Str("stream"), !.tracks = "live",
                     !.error = Str("Camera failed: Camera timeout - metadata never loaded")]
    ELSE IF ~playResolves
    THEN [cam EXCEPT !.srcObject = Str("stream"), !.tracks = "live",
                     !.error = Str("Camera failed: play")]
    ELSE [cam EXCEPT !.srcObject = Str("stream"), !.tracks = "live",
                     !.streamStarted = TRUE, !.error = Null]

\* stopCamera
stopCamera(cam, mounted) ==
    IF mounted /\ Truthy(cam.srcObject)
    THEN [cam EXCEPT !.tracks = "stopped", !.srcObject = Null, !.streamStarted = FALSE]
    ELSE cam

Camera == [streamStarted |-> streamStarted, srcObject |-> srcObject,
           tracks |-> tracks, error |-> error]

\* the Start Camera button: disabled while processing or while models load
StartCamera ==
    /\ ~processing /\ modelsReady
    /\ \E granted \in BOOLEAN, metadataLoads \in BOOLEAN, playResolves \in BOOLEAN :
          LET after == startCamera(Camera, VideoMounted, granted, metadataLoads, playResolves)
          IN  /\ streamStarted' = after.streamStarted
              /\ srcObject' = after.srcObject
              /\ tracks' = after.tracks
              /\ error' = after.error
              /\ lastCameraOp' = [op |-> "startCamera", fromOff |-> ~streamStarted,
                                  granted |-> granted,
                                  videoStarts |-> metadataLoads /\ playResolves]
    /\ UNCHANGED lastRun
    /\ UNCHANGED <<appFragments, reconstructedMesh, processing, inFlight, delivered,
                   storeBefore, deliveredResults, ccVars>>
    /\ UNCHANGED <<storeVars, fnVars, projVars, estVars>>

StopCamera ==
    /\ LET after == stopCamera(Camera, VideoMounted)
       IN  /\ streamStarted' = after.streamStarted
           /\ srcObject' = after.srcObject
           /\ tracks' = after.tracks
           /\ error' = after.error
    /\ lastCameraOp' = [op |-> "stopCamera"]
    /\ UNCHANGED lastRun
    /\ UNCHANGED <<appFragments, reconstructedMesh, processing, inFlight, delivered,
                   storeBefore, deliveredResults, ccVars>>
    /\ UNCHANGED <<storeVars, fnVars, projVars, estVars>>

NextPanel ==
    \/ StartCapture \/ ProcessImageBegin \/ ProcessImage \/ ClearFragments
    \/ StartCamera \/ StopCamera

-----------------------------------------------------------------------------
(* Specifications: one per component, the other components at rest *)

IdleStore ==
    /\ fragments = <<>> /\ lastOp = "new" /\ ret = Undefined /\ calls = <<>>
    /\ meshSince = NoMesh /\ prev = NoCall

IdleFn == fnIn = <<>> /\ fnOp = "none" /\ fnOut = <<>> /\ fnDone = FALSE

IdleProj == depthMap = <<>> /\ cameraIntrinsics = Null /\ points = <<>> /\ projDone = FALSE

IdleCapture ==
    /\ ccStreamStarted = FALSE /\ ccProcessing = FALSE /\ ccDepthEstimator = Null
    /\ ccStage = "idle" /\ ccLog = <<>>

IdleCamera ==
    /\ streamStarted = FALSE /\ srcObject = Null /\ tracks = "none" /\ error = Null
    /\ lastRun = NoRun /\ lastCameraOp = NoCameraOp

IdleApp ==
    /\ appFragments = <<>> /\ reconstructedMesh = Null /\ processing = FALSE
    /\ inFlight = <<>> /\ delivered = "none" /\ storeBefore = <<>>
    /\ deliveredResults = [tracked |-> TRUE, list |-> <<>>]
    /\ IdleCapture
    /\ IdleCamera

IdleEst ==
    /\ initialized = FALSE /\ pendingInit = 0 /\ lastEvent = "constructed"
    /\ imgElement = Null /\ smoothed = <<>> /\ estOut = NoOutcome
    /\ depthEstimatorInstance = "none" /\ estCalls = <<>>
    /\ IdleClassifier

\* the reconstructor and its fragment store
Init == InitStore /\ IdleFn /\ IdleProj /\ IdleEst /\ IdleApp
Next == NextStore
Spec == Init /\ [][Next]_vars

\* extractSymmetryProfile and mergeProfiles as functions
InitProfiles == IdleStore /\ InitFn /\ IdleProj /\ IdleEst /\ IdleApp
NextProfiles == NextFn
SpecProfiles == InitProfiles /\ [][NextProfiles]_vars

\* one PotteryReconstructor fed with classified fragments
InitTagged == InitStore /\ IdleFn /\ IdleProj /\ IdleEst /\ IdleApp
NextTagged == AddTaggedFragment \/ Clear \/ Reconstruct
SpecTagged == InitTagged /\ [][NextTagged]_vars

\* App with its capture component and the shared reconstructor
InitCapture == InitStore /\ IdleFn /\ IdleProj /\ IdleEst /\ IdleApp
NextCapture == NextApp
SpecCapture == InitCapture /\ [][NextCapture]_vars

\* smoothProfile as a function
InitSmoothing == IdleStore /\ InitSmooth /\ IdleProj /\ IdleEst /\ IdleApp
NextSmoothing == SmoothProfile
SpecSmoothing == InitSmoothing /\ [][NextSmoothing]_vars

\* the estimator singleton behind getDepthEstimator()
InitGetEstimator == IdleStore /\ IdleFn /\ IdleProj /\ IdleEst /\ IdleApp
NextGetEstimator == NextSingleton
SpecGetEstimator == InitGetEstimator /\ [][NextGetEstimator]_vars

\* components/CameraCapture.jsx alone
InitCameraCapture == IdleStore /\ IdleFn /\ IdleProj /\ IdleEst /\ IdleApp
SpecCameraCapture == InitCameraCapture /\ [][NextCameraCapture]_vars

\* buildPotteryMesh over the shared reconstructor
InitBuildMesh == InitStore /\ IdleFn /\ IdleProj /\ IdleEst /\ IdleApp
NextBuildMesh == BuildPotteryMesh
SpecBuildMesh == InitBuildMesh /\ [][NextBuildMesh]_vars

\* the store fed with scored fragments
InitScored == InitStore /\ IdleFn /\ IdleProj /\ IdleEst /\ IdleApp
NextScored == AddScoredFragment \/ Clear
SpecScored == InitScored /\ [][NextScored]_vars

\* the classifier singleton behind getFragmentClassifier()
InitClassifier == IdleStore /\ IdleFn /\ IdleProj /\ IdleEst /\ IdleApp
SpecClassifier == InitClassifier /\ [][NextClassifier]_vars

\* the capture component with processImage, mounted in App
InitPanel == InitStore /\ IdleFn /\ IdleProj /\ IdleEst /\ IdleApp
SpecPanel == InitPanel /\ [][NextPanel]_vars

\* mergeProfiles on two profiles with disjoint height ranges
InitTwoBands == IdleStore /\ InitBands /\ IdleProj /\ IdleEst /\ IdleApp
NextTwoBands == MergeProfiles
SpecTwoBands == InitTwoBands /\ [][NextTwoBands]_vars

\* depthToPointCloud as a function
InitProjection == IdleStore /\ IdleFn /\ InitProj /\ IdleEst /\ IdleApp
NextProjection == NextProj
SpecProjection == InitProjection /\ [][NextProjection]_vars

\* one DepthEstimator
InitEstimator == IdleStore /\ IdleFn /\ IdleProj /\ InitEst /\ IdleApp
NextEstimator == NextEst
SpecEstimator == InitEstimator /\ [][NextEstimator]_vars

-----------------------------------------------------------------------------
(* Properties *)

\* the fragments in the order perm[1], perm[2], ...
Permuted(seq, perm) == [i \in 1..Len(seq) |-> seq[perm[i]]]

IsSortedByY(profile) ==
    \A i \in 1..(Len(profile) - 1) :
        profile[i].y[1] * profile[i + 1].y[2] <= profile[i + 1].y[1] * profile[i].y[2]

\* C1: reconstruct() returns the default-vase mesh exactly when the store is empty
\* or the merged profile of the stored fragments has fewer than 3 samples; with 3
\* or more samples it returns the lathe of that merged profile, which is not the
\* default vase.
C1_DefaultVaseIffShortProfile ==
    lastOp = "reconstruct" =>
        LET merged == FinalProfile(fragments)
        IN  IF Len(fragments) = 0 \/ Len(merged) < 3
            THEN ret = buildDefaultPottery
            ELSE /\ ret # buildDefaultPottery
                 /\ ret.geometry.points = Vector2s(merged)
                 /\ ret.geometry.segments = 64
                 /\ ret.material.side = "DoubleSide"

\* C1 witness: reconstruct() ran on a store that holds fragments with points, whose
\* merged profile has one or two samples, and returned the default vase
C1_Witness ==
    /\ lastOp = "reconstruct"
    /\ Len(fragments) = 2
    /\ Len(FinalProfile(fragments)) \in {1, 2}
    /\ ret = buildDefaultPottery

ZeroStats == [t |-> "stats", fragmentCount |-> 0, totalPoints |-> 0, fragmentTypes |-> <<>>]

\* C2: after clear() the store is empty whatever was added before; as long as no
\* addFragment follows, getStats() reports 0 fragments, 0 points and no types, and
\* reconstruct() returns the default vase, as on a store that never held a fragment.
C2_ClearEmptiesStore ==
    /\ lastOp = "clear" => fragments = <<>>
    /\ (calls = <<>> /\ lastOp = "getStats") => ret = ZeroStats
    /\ (calls = <<>> /\ lastOp = "reconstruct") => ret = buildDefaultPottery

\* C2 witness: clear() has just run on a store of two fragments
C2_Witness ==
    /\ lastOp = "clear"
    /\ prev.count = 2
    /\ fragments = <<>>

\* the type addFragment is to record for a metadata object
SuppliedType(metadata) ==
    IF metadata.fragmentType = Undefined THEN Str("unknown") ELSE metadata.fragmentType

RECURSIVE PointsAdded(_)
PointsAdded(history) ==
    IF history = <<>> THEN 0
    ELSE Len(history[1].pointCloud) + PointsAdded(SubSeq(history, 2, Len(history)))

\* C3: getStats() matches the addFragment calls since the last clear(): their
\* number, the sum of their point-list lengths, their types in call order.
C3_StatsMatchStore ==
    lastOp = "getStats" =>
        /\ ret.fragmentCount = Len(calls)
        /\ ret.totalPoints = PointsAdded(calls)
        /\ ret.fragmentTypes = [i \in 1..Len(calls) |-> SuppliedType(calls[i].metadata)]

\* C3 witness: getStats() ran after two fragments of different types and sizes
C3_Witness ==
    /\ lastOp = "getStats"
    /\ Len(calls) = 2
    /\ ret.fragmentTypes[1] # ret.fragmentTypes[2]
    /\ Len(calls[1].pointCloud) # Len(calls[2].pointCloud)
    /\ ret.totalPoints > 0

\* C4: a reconstruct() that follows an earlier reconstruct() with no addFragment
\* and no clear() in between returns the same mesh, built from the same profile.
C4_ReconstructIdempotent ==
    (lastOp = "reconstruct" /\ prev.mesh # NoMesh) => ret = prev.mesh

\* C4 witness: a second reconstruct() on an unchanged store whose mesh is a lathe
C4_Witness ==
    /\ lastOp = "reconstruct"
    /\ Len(fragments) = 2
    /\ prev.mesh # NoMesh
    /\ ret # buildDefaultPottery

\* C5: reconstruct() and getStats() leave this.fragments as it was; the store
\* shrinks only in clear() and grows only in addFragment, by one fragment at its end.
C5_StoreFrame ==
    [][/\ lastOp' \in {"reconstruct", "getStats"} => fragments' = fragments
       /\ Len(fragments') < Len(fragments) => lastOp' = "clear"
       /\ Len(fragments') > Len(fragments) =>
             /\ lastOp' = "addFragment"
             /\ Len(fragments') = Len(fragments) + 1
             /\ SubSeq(fragments', 1, Len(fragments)) = fragments
       /\ fragments' # fragments => lastOp' \in {"addFragment", "clear"}]_vars

\* C5 witness: reconstruct() ran on a store of two fragments, one with points that
\* are not in height order, and the two fragments are still there
C5_Witness ==
    /\ lastOp = "reconstruct"
    /\ prev.count = 2
    /\ Len(fragments) = 2
    /\ \E i \in 1..2 : fragments[i].points # SortByY(fragments[i].points)

ForegroundPixels(depthData) ==
    LET width == Len(depthData[1])
        all == [k \in 1..(Len(depthData) * width) |-> <<(k - 1) \div width, (k - 1) % width>>]
        Far(px) == LET d == depthData[px[1] + 1][px[2] + 1][1] IN 100 * d[1] > d[2]
    IN  SelectSeq(all, Far)

\* C9: depthToPointCloud emits exactly one point per pixel with z = depth * 10 > 0.1,
\* in raster order, with that z, and none for any other pixel.
C9_PointIffForeground ==
    projDone =>
        LET fg == ForegroundPixels(depthMap)
        IN  /\ Len(points) = Len(fg)
            /\ \A i \in 1..Len(points) :
                  /\ points[i].z = RMul(depthMap[fg[i][1] + 1][fg[i][2] + 1][1], RInt(10))
                  /\ 10 * points[i].z[1] > points[i].z[2]

\* C9 witness: a depth map with a pixel at z = 0.1 exactly, a background pixel and
\* a foreground pixel has been projected
C9_Witness ==
    /\ projDone
    /\ \E v \in 1..Len(depthMap) : \E u \in 1..Len(depthMap[v]) : depthMap[v][u][1] = Rat(1, 100)
    /\ \E v \in 1..Len(depthMap) : \E u \in 1..Len(depthMap[v]) : depthMap[v][u][1] = RInt(0)
    /\ Len(points) = 1
    /\ cameraIntrinsics # Null

\* C10: estimateDepth throws 'DepthEstimator not initialized' exactly when the flag
\* is false, and the flag is true exactly when the last life-cycle event is a
\* completed initialize(): a depth field is computed only after a completed
\* initialize() with no dispose() since.
C10_FailsFastUnlessInitialized ==
    /\ initialized <=> lastEvent = "initialized"
    /\ (estOut.kind # "none" /\ lastEvent \in {"constructed", "disposed"}) =>
          estOut = [kind |-> "throw", error |-> "DepthEstimator not initialized"]
    /\ (estOut.kind = "throw" /\ ValidRaster(imgElement)) =>
          /\ estOut.error = "DepthEstimator not initialized"
          /\ lastEvent \in {"constructed", "disposed"}
    /\ estOut.kind = "return" => lastEvent = "initialized"

\* C10 witness: estimateDepth threw after a dispose(), with no initialize() pending
C10_Witness ==
    /\ estOut.kind = "throw"
    /\ lastEvent = "disposed"
    /\ pendingInit = 0

\* a finite number between 0 and 1, both included
InUnitRange(q) == q[2] > 0 /\ 0 <= q[1] /\ q[1] <= q[2]

\* C11: for a valid raster, the field estimateDepth returns has the height and
\* the width of the image and every value of it lies in [0, 1].
C11_DepthInUnitRangeSameSize ==
    (estOut.kind = "return" /\ ValidRaster(imgElement)) =>
        /\ Len(estOut.depth) = imgElement.height
        /\ \A v \in 1..Len(estOut.depth) :
              /\ Len(estOut.depth[v]) = imgElement.width
              /\ \A u \in 1..Len(estOut.depth[v]) :
                    /\ Len(estOut.depth[v][u]) = 1
                    /\ InUnitRange(estOut.depth[v][u][1])

\* C11 witness: a field was returned for a 1 x 2 image whose smoothed values
\* differ and include a negative one
C11_Witness ==
    /\ estOut.kind = "return"
    /\ imgElement = [height |-> 1, width |-> 2]
    /\ smoothed[1][1] = <<Rat(-1, 2)>>
    /\ smoothed[1][2] = <<Rat(3, 10)>>
    /\ estOut.depth[1][1] = <<RInt(0)>>

\* every value of the field is the same
IsFlat(field) ==
    \A v1, v2 \in 1..Len(field) :
        \A u1 \in 1..Len(field[v1]), u2 \in 1..Len(field[v2]) :
            field[v1][u1] = field[v2][u2]

\* C12: normalising a flat field divides by 1e-7, which is positive, and
\* returns the constant field of zeros.
C12_FlatFieldGivesZeros ==
    (estOut.kind = "return" /\ ValidRaster(imgElement) /\ IsFlat(smoothed)) =>
        /\ NormalizeDivisor(smoothed) = Epsilon
        /\ RLess(RInt(0), NormalizeDivisor(smoothed))
        /\ \A v \in 1..Len(estOut.depth) :
              \A u \in 1..Len(estOut.depth[v]) : estOut.depth[v][u] = <<RInt(0)>>

\* C12 witness: a field was returned for a 2 x 2 image whose smoothed field is
\* 3/10 everywhere
C12_Witness ==
    /\ estOut.kind = "return"
    /\ imgElement = [height |-> 2, width |-> 2]
    /\ \A v, u \in 1..2 : smoothed[v][u] = <<Rat(3, 10)>>

HasPoints(fragment) == fragment.points # <<>>

\* C13: a fragment without points contributes nothing.  When reconstruct() has
\* run, the merged profile and the mesh are those of the store without its empty
\* fragments, and a store of empty fragments only gives the default vase.
C13_EmptyFragmentContributesNothing ==
    (lastOp = "reconstruct") =>
        /\ FinalProfile(fragments) = FinalProfile(SelectSeq(fragments, HasPoints))
        /\ ret = reconstruct(SelectSeq(fragments, HasPoints)).mesh
        /\ SelectSeq(fragments, HasPoints) = <<>> => ret = buildDefaultPottery

\* C13 witness: reconstruct() ran on a store holding the ring fragment and then
\* an empty fragment, and did not return the default vase
C13_Witness ==
    /\ lastOp = "reconstruct"
    /\ Len(fragments) = 2
    /\ fragments[1].points = RingCloud
    /\ fragments[2].points = EmptyCloud
    /\ ret # buildDefaultPottery

\* every point lies at distance c from the vertical axis
AllAtRadius(pts, c) ==
    \A i \in 1..Len(pts) :
        RAdd(RMul(pts[i].x, pts[i].x), RMul(pts[i].z, pts[i].z)) = RInt(c * c)

MaxRadius == 5

InGap(y) == RLess(RInt(2), y) /\ RLess(y, RInt(3))

\* C15 as stated: merging a profile in [0, 2] with one in [3, 5], both of radius
\* 3, gives r = 3 everywhere and no sample with a height strictly between 2 and 3.
C15_GapStaysEmpty_Original ==
    (fnOp = "mergeProfiles" /\ fnDone) =>
        \A i \in 1..Len(fnOut) :
            fnOut[i].r = RInt(BandRadius) /\ ~InGap(fnOut[i].y)

\* C15 amended: r = 3 for every sample; no bucket of the merge has a height
\* strictly between 2 and 3; the returned profile has no such sample when it has
\* fewer than 7 samples (from 7 buckets on, the final smoothing averages heights
\* across the gap).
C15_GapEmptyBeforeSmoothing ==
    (fnOp = "mergeProfiles" /\ fnDone) =>
        /\ \A i \in 1..Len(fnOut) : fnOut[i].r = RInt(BandRadius)
        /\ \A i \in 1..Len(Merged(Buckets(Flat(fnIn)))) :
              ~InGap(Merged(Buckets(Flat(fnIn)))[i].y)
        /\ Len(fnOut) < MergeWindow =>
              \A i \in 1..Len(fnOut) : ~InGap(fnOut[i].y)

\* C15 witness: six buckets, three below the gap and three above it, were merged
C15_Witness ==
    /\ fnOp = "mergeProfiles" /\ fnDone
    /\ Len(fnOut) = 6
    /\ Cardinality({i \in 1..6 : RLeq(fnOut[i].y, RInt(2))}) = 3
    /\ Cardinality({i \in 1..6 : RLeq(RInt(3), fnOut[i].y)}) = 3

\* the store with fragment i given another type and confidence
Retagged(frags, i, type, confidence) ==
    [frags EXCEPT ![i].type = type, ![i].confidence = confidence]

\* C16: the mesh of reconstruct() does not depend on type or confidence: giving
\* any fragment of the store any other type and confidence reconstructs the same
\* mesh, and applyFragmentConstraints returns the mesh and the store it was given.
C16_MeshIgnoresTypeAndConfidence ==
    (lastOp = "reconstruct") =>
        /\ \A i \in 1..Len(fragments), t \in TagTypes, c \in TagConfidences :
              reconstruct(Retagged(fragments, i, t, c)).mesh = ret
        /\ applyFragmentConstraints(fragments, ret).mesh = ret
        /\ applyFragmentConstraints(fragments, ret).fragments = fragments

\* C16 witness: reconstruct() built a mesh from the ring fragment stored as a
\* rim and the pair fragment stored as a base
C16_Witness ==
    /\ lastOp = "reconstruct"
    /\ Len(fragments) = 2
    /\ fragments[1].points = RingCloud /\ fragments[1].type = Str("rim")
    /\ fragments[2].points = PairCloud /\ fragments[2].type = Str("base")
    /\ ret # buildDefaultPottery

\* C17 as stated: estimateDepth on a malformed or zero-dimension raster ends
\* with an error and never returns a depth field.
C17_MalformedRasterFailsFast ==
    (estOut.kind # "none" /\ ~ValidRaster(imgElement)) => estOut.kind = "throw"

GivenOr(intrinsics, f, default) ==
    IF intrinsics = Null THEN default
    ELSE IF intrinsics[f] = Undefined THEN default
    ELSE intrinsics[f].v

\* C19 as stated: depthToPointCloud projects with every supplied intrinsic exactly
\* as given (a supplied cx = 0 or cy = 0 included) and with width / 2 or
\* height / 2 only for an intrinsic that was not supplied.
C19_SuppliedIntrinsicsUsed ==
    projDone =>
        LET fg == ForegroundPixels(depthMap)
            fx == GivenOr(cameraIntrinsics, "fx", Rat(Len(depthMap[1]), 2))
            fy == GivenOr(cameraIntrinsics, "fy", Rat(Len(depthMap), 2))
            cx == GivenOr(cameraIntrinsics, "cx", Rat(Len(depthMap[1]), 2))
            cy == GivenOr(cameraIntrinsics, "cy", Rat(Len(depthMap), 2))
        IN  \A i \in 1..Len(points) :
                /\ points[i].x = RDiv(RMul(RSub(RInt(fg[i][2]), cx), points[i].z), fx)
                /\ points[i].y = RDiv(RMul(RSub(RInt(fg[i][1]), cy), points[i].z), fy)

\* the sum of field f over the samples lo..hi of a profile
RECURSIVE WindowSum(_, _, _, _)
WindowSum(profile, f, lo, hi) ==
    IF lo > hi THEN RInt(0)
    ELSE RAdd(profile[lo][f], WindowSum(profile, f, lo + 1, hi))

\* C20: smoothProfile(profile, w) returns a profile of fewer than w samples
\* unchanged; otherwise it returns as many samples as it was given, sample i
\* being the mean r and the mean y of the samples from max(first, i - floor(w/2))
\* to min(last, i + floor(w/2)).
C20_SmoothIsClippedWindowMean ==
    (fnOp = "smoothProfile" /\ fnDone) =>
        IF Len(fnIn.profile) < fnIn.windowSize THEN fnOut = fnIn.profile
        ELSE /\ Len(fnOut) = Len(fnIn.profile)
             /\ \A i \in 1..Len(fnOut) :
                   LET lo == IF i - fnIn.windowSize \div 2 < 1 THEN 1
                             ELSE i - fnIn.windowSize \div 2
                       hi == IF i + fnIn.windowSize \div 2 > Len(fnOut) THEN Len(fnOut)
                             ELSE i + fnIn.windowSize \div 2
                   IN  /\ RMul(fnOut[i].r, RInt(hi - lo + 1)) = WindowSum(fnIn.profile, "r", lo, hi)
                       /\ RMul(fnOut[i].y, RInt(hi - lo + 1)) = WindowSum(fnIn.profile, "y", lo, hi)

\* C20 witness: five samples at three heights, out of height order, were smoothed
\* with a window of 5, and the result differs from the input
C20_Witness ==
    /\ fnOp = "smoothProfile" /\ fnDone
    /\ fnIn.windowSize = 5
    /\ Len(fnIn.profile) = 5
    /\ Cardinality({fnIn.profile[i] : i \in 1..5}) = 3
    /\ fnIn.profile # SortByY(fnIn.profile)
    /\ fnOut # fnIn.profile

\* the positions <<p, i>> of all samples of all profiles
SamplePositions(profiles) ==
    UNION {{<<p, i>> : i \in 1..Len(profiles[p])} : p \in 1..Len(profiles)}

\* round(y / 0.5): the integer k with k - 1/2 <= y / 0.5 < k + 1/2
BucketIndex(y) ==
    CHOOSE k \in -64..64 :
        (2 * k - 1) * y[2] <= 4 * y[1] /\ 4 * y[1] < (2 * k + 1) * y[2]

\* the sum of the radii of the samples at the positions S
RECURSIVE RadiusSum(_, _)
RadiusSum(profiles, S) ==
    IF S = {} THEN RInt(0)
    ELSE LET s == CHOOSE t \in S : TRUE
         IN  RAdd(profiles[s[1]][s[2]].r, RadiusSum(profiles, S \ {s}))

\* C21: mergeProfiles returns one sample per distinct value of round(y / 0.5)
\* over all samples of all profiles (a tie at a half goes to the higher bucket);
\* with fewer than 7 buckets the sample of bucket k is {r: mean of the radii of
\* the bucket, y: k * 0.5}.
C21_OneSamplePerBucket ==
    (fnOp = "mergeProfiles" /\ fnDone) =>
        LET at == SamplePositions(fnIn)
            keys == {BucketIndex(fnIn[s[1]][s[2]].y) : s \in at}
            Members(k) == {s \in at : BucketIndex(fnIn[s[1]][s[2]].y) = k}
        IN  /\ Len(fnOut) = Cardinality(keys)
            /\ Cardinality(keys) < MergeWindow =>
                  \A k \in keys : \E i \in 1..Len(fnOut) :
                      /\ fnOut[i].y = Rat(k, 2)
                      /\ RMul(fnOut[i].r, RInt(Cardinality(Members(k))))
                            = RadiusSum(fnIn, Members(k))

\* C21 witness: two profiles were merged whose samples at height 1/4 (a tie,
\* bucket 1) share a bucket with radii 2 and 4, the sample at 3/4 (a tie) going
\* to bucket 2
C21_Witness ==
    /\ fnOp = "mergeProfiles" /\ fnDone
    /\ fnIn = << <<Sample(2, 1)>>, <<Sample(4, 1), Sample(6, 3)>> >>
    /\ fnOut = << [r |-> RInt(3), y |-> Rat(1, 2)], [r |-> RInt(6), y |-> RInt(1)] >>

\* the entries of a fragment list that carry at least one point
WithPoints(list) ==
    {i \in 1..Len(list) : list[i].error = Undefined /\ list[i].pointCloud.v # <<>>}

\* C22: every delivered capture rebuilds the store from the list alone: the store
\* then holds one fragment per list entry with a non-empty point cloud, in list
\* order, whatever it held before, and the viewer's mesh is reconstruct() of it.
C22_FullRebuildPerCapture ==
    (delivered # "none") =>
        /\ Len(fragments) = Cardinality(WithPoints(appFragments))
        /\ \A i \in WithPoints(appFragments) :
              fragments[Cardinality({j \in WithPoints(appFragments) : j <= i})].points
                  = appFragments[i].pointCloud.v
        /\ reconstructedMesh = reconstruct(fragments).mesh

\* C22 witness: the list is a capture with points followed by a failed one, the
\* store held a fragment before the rebuild and holds one after it
C22_Witness ==
    /\ delivered = "failed"
    /\ Len(appFragments) = 2
    /\ appFragments[1].error = Undefined
    /\ storeBefore # <<>>
    /\ Len(fragments) = 1
    /\ reconstructedMesh # buildDefaultPottery

\* C23 as stated: every getDepthEstimator() promise that resolves, resolves to an
\* estimator whose initialized flag is true, whatever the interleaving of calls.
C23_ResolvesInitialized ==
    \A i \in 1..Len(estCalls) : estCalls[i].status = "resolved" => estCalls[i].ready

\* a second call made while the first one is suspended in initialize()
C23_SecondCallDuringInitialize ==
    /\ Len(estCalls) >= 2
    /\ estCalls[1].status = "awaiting"
    /\ estCalls[2].status = "resolved"

\* C24 as stated: no capture is lost.  After n results were delivered to
\* handleCaptureResult with no clear in between, the App's fragment list holds
\* these n results in delivery order, also for captures processed at the same time.
C24_NoCaptureLost ==
    deliveredResults.tracked => appFragments = deliveredResults.list

\* C25 as stated: once captureImage has set processing to true it is set back to
\* false on every path, so whenever no capture is under way any more (no image
\* handler pending or suspended) processing is false.
C25_ProcessingAlwaysReset ==
    ccStage = "idle" => ~ccProcessing

C27_SuppliedValuesStored ==
    Len(fragments) = Len(calls) =>
        \A i \in 1..Len(fragments) :
            /\ fragments[i].confidence =
                  IF calls[i].metadata.confidence = Undefined THEN Num(Rat(1, 2))
                  ELSE calls[i].metadata.confidence
            /\ fragments[i].type =
                  IF calls[i].metadata.fragmentType = Undefined THEN Str("unknown")
                  ELSE calls[i].metadata.fragmentType

\* the classifiers whose initialize() is in progress
Initializing == {o \in 1..Len(classifiers) : classifiers[o].running}

\* C28 as stated: for every interleaving of getFragmentClassifier() calls, at most
\* one initialize() is in progress at any time, and every call that resolves does
\* so with a classifier whose loaded flag is true (every other finished call rejects).
C28_OneInitializeLoadedResults ==
    /\ Cardinality(Initializing) <= 1
    /\ \A k \in 1..Len(clsCalls) :
          clsCalls[k].pc = "resolved" =>
              clsCalls[k].loaded /\ classifiers[clsCalls[k].obj].loaded

\* C29 as stated: when classification fails but depth estimation succeeds,
\* processImage hands exactly one result to onResult, with the point cloud, the
\* fallback classification and no error; it hands over an error result only when
\* depth estimation itself (the estimator's load or estimateDepth) fails.
C29_FallbackResultWhenClassifierFails ==
    lastRun.ran =>
        /\ (lastRun.estimatorLoaded /\ lastRun.classificationFailed /\ lastRun.depthSucceeded) =>
              /\ Len(lastRun.results) = 1
              /\ lastRun.results[1].error = Undefined
              /\ lastRun.results[1].pointCloud # Undefined
              /\ lastRun.results[1].classification = FallbackClassification
        /\ (\E i \in 1..Len(lastRun.results) : lastRun.results[i].error # Undefined) =>
              ~(lastRun.estimatorLoaded /\ lastRun.depthSucceeded)

\* C30 as stated: startCamera started from the camera-off state, with the models
\* ready, access granted and the metadata loaded, ends with streamStarted true;
\* after stopCamera the camera is off and no track is live.
C30_StartCameraReachesActive ==
    /\ (/\ lastCameraOp.op = "startCamera"
        /\ lastCameraOp.fromOff /\ modelsReady
        /\ lastCameraOp.granted /\ lastCameraOp.videoStarts)
          => streamStarted
    /\ lastCameraOp.op = "stopCamera" => (~streamStarted /\ tracks # "live")

====
